---- MODULE Spec2Model ----
(***************************************************************************)
(* win-key-event: a polling key listener (src/src/lib.rs).                 *)
(*                                                                         *)
(* Three concurrent activities share one listener:                         *)
(*   - the caller, which owns the handle Arc<Mutex<KeyListener>> returned  *)
(*     by init_custom_key_listener and may lock it and call quit();        *)
(*   - the task spawned by spawn_listener, which locks the handle, clones  *)
(*     the configuration, unlocks and runs listen() (the watch loop);      *)
(*   - the task spawned by spawn_receiver (the dispatcher), which receives *)
(*     the key events and calls the user's callbacks.                      *)
(* The state below is the state of these three and of what they share:     *)
(* the KeyListener fields, the atomic flag is_watching, the tokio mutex    *)
(* and the unbounded channel.                                              *)
(***************************************************************************)
EXTENDS Integers, Sequences, FiniteSets, TLC

(***************************************************************************)
(* Bounds of the model                                                     *)
(***************************************************************************)
\* number of passes of the watch loop that are explored
MaxPasses == 3
\* number of quit() calls the caller makes
MaxQuits == 2

(***************************************************************************)
(* Program constants and input sets                                        *)
(***************************************************************************)
\* const KEY_DOWN_MASK: i16 = -32768
KEY_DOWN_MASK == -32768

\* the arguments (vk_codes, polling_wait) the caller gives to
\* init_custom_key_listener: the watch set of examples/example.rs (space,
\* esc), one key, the same key twice, no key; the example's interval and 0
Configs == {<<(<<32, 27>>), 12>>, <<(<<32>>), 0>>, <<(<<32, 32>>), 12>>,
            <<(<<>>), 0>>}

\* values GetAsyncKeyState can return (an i16): up, up with the low bit set,
\* down, down with the low bit set, and the two extremes of the lower 15 bits
RawStates == {0, 1, 32767, -32768, -32767, -1}

\* the keys the user touches while the listener runs (space, esc); every other
\* key stays up
TouchedCodes == {32, 27}

(***************************************************************************)
(* i16 arithmetic: the & of get_key_state                                  *)
(***************************************************************************)
\* the two's complement bit pattern of an i16, as a number 0 .. 65535
ToU16(x) == x % 65536

\* the i16 whose bit pattern is u
ToI16(u) == IF u >= 32768 THEN u - 65536 ELSE u

RECURSIVE BitAndU(_, _, _)
\* bitwise and of the low n bits of two naturals
BitAndU(a, b, n) ==
    IF n = 0 THEN 0
    ELSE (IF (a % 2 = 1) /\ (b % 2 = 1) THEN 1 ELSE 0)
         + 2 * BitAndU(a \div 2, b \div 2, n - 1)

\* a & b on i16
BitAnd16(a, b) == ToI16(BitAndU(ToU16(a), ToU16(b), 16))

\* an is_down that tests the masked value with > 0 instead of != 0
IsDown_Positive(state) == BitAnd16(state, KEY_DOWN_MASK) > 0

\* let is_down = (state & KEY_DOWN_MASK) != 0;
IsDown(state) == BitAnd16(state, KEY_DOWN_MASK) /= 0

\* what GetAsyncKeyState(vk_code) can return
RawStatesFor(vk_code) ==
    IF vk_code \in TouchedCodes THEN RawStates
    ELSE {state \in RawStates : ~IsDown(state)}

(***************************************************************************)
(* get_key_state: classification of one sample, and the update of          *)
(* previous_key_states[i].  Returns the KeyState and the updated vector.   *)
(***************************************************************************)
\* a classification that ignores was_down for a key that is down
Classify_DownIsPress(is_down, was_down) ==
    IF is_down
    THEN "KeyPress"
    ELSE (IF was_down THEN "KeyRelease" ELSE "StaticUp")

Classify(is_down, was_down) ==
    IF is_down
    THEN (IF was_down THEN "StaticDown" ELSE "KeyPress")
    ELSE (IF was_down THEN "KeyRelease" ELSE "StaticUp")

\* a get_key_state that forgets `previous_key_states[i] = is_down`
UpdatePrevious_Keeps(prev, i, is_down) == prev

\* a get_key_state that overwrites the whole vector with is_down
UpdatePrevious_All(prev, i, is_down) == [k \in DOMAIN prev |-> is_down]

UpdatePrevious(prev, i, is_down) == [prev EXCEPT ![i] = is_down]

get_key_state(state, i, prev) ==
    LET is_down == IsDown(state)
        was_down == prev[i]
    IN [key_state |-> Classify(is_down, was_down),
        previous_key_states |-> UpdatePrevious(prev, i, is_down)]

(***************************************************************************)
(* State                                                                   *)
(***************************************************************************)
VARIABLES
    listener,      \* the KeyListener behind the handle: vk_codes,
                   \* previous_key_states, polling_wait
    is_watching,   \* the shared AtomicBool
    lock,          \* holder of the tokio Mutex: "none", "task", "caller"
    pcL,           \* position of the task spawned by spawn_listener
    task,          \* its locals: sleep_time, vk_codes, previous_key_states, i
    queue,         \* the unbounded channel's buffer of KeyEvents
    rxAlive,       \* the UnboundedReceiver has not been dropped
    pcD,           \* position of the dispatcher task: "recv", "callback", "done"
    cur,           \* the KeyEvent the dispatcher has received, <<>> if none
    callerPc,      \* the caller: "idle", "locked", "dropped"
    quitCalls,     \* number of quit() calls made so far
    passNo,        \* history: number of passes begun
    lastSample,    \* history: per index, the is_down sampled in the latest pass
    sent,          \* history: the events handed to sender.send, in order,
                   \* each with its pass, its index and whether send was Ok
    calls          \* history: the callback invocations, in order

vars == <<listener, is_watching, lock, pcL, task, queue, rxAlive, pcD, cur,
          callerPc, quitCalls, passNo, lastSample, sent, calls>>

(***************************************************************************)
(* KeyListener::new_custom and init_custom_key_listener                    *)
(***************************************************************************)
\* a new_custom that starts the previous-state vector at "down"
new_custom_AllDown(vk_codes, polling_wait) ==
    [vk_codes |-> vk_codes,
     previous_key_states |-> [k \in 1..Len(vk_codes) |-> TRUE],
     polling_wait |-> polling_wait]

\* the fields new_custom sets from its arguments; unbounded_sender is the
\* channel below and is_watching the variable of that name
new_custom(vk_codes, polling_wait) ==
    [vk_codes |-> vk_codes,
     previous_key_states |-> [k \in 1..Len(vk_codes) |-> FALSE],
     polling_wait |-> polling_wait]

\* the 69 key codes of new_default: digits, numpad digits, letters,
\* punctuation, space, enter, backspace, tab, numpad operators, shifts
DefaultVkCodes ==
    <<48, 49, 50, 51, 52, 53, 54, 55, 56, 57,
      96, 97, 98, 99, 100, 101, 102, 103, 104, 105,
      65, 66, 67, 68, 69, 70, 71, 72, 73, 74, 75, 76, 77, 78, 79,
      80, 81, 82, 83, 84, 85, 86, 87, 88, 89, 90,
      186, 187, 188, 189, 190, 191, 192, 219, 220, 221, 222,
      32, 13, 8, 9,
      106, 107, 109, 110, 111,
      160, 161, 16>>

\* the length given to vec![false; 69] in new_default
DefaultStatesLen == 69

\* polling_wait: 10 in new_default
DefaultPollingWait == 10

\* a new_default whose vector is one short of the key list
new_default_ShortVector ==
    [vk_codes |-> DefaultVkCodes,
     previous_key_states |-> [k \in 1..(DefaultStatesLen - 1) |-> FALSE],
     polling_wait |-> DefaultPollingWait]

\* the fields new_default sets
new_default ==
    [vk_codes |-> DefaultVkCodes,
     previous_key_states |-> [k \in 1..DefaultStatesLen |-> FALSE],
     polling_wait |-> DefaultPollingWait]

\* the locals of the spawned task before it has cloned the configuration
NoLocals == [sleep_time |-> 0, vk_codes |-> <<>>,
             previous_key_states |-> <<>>, i |-> 0]

\* the state when init_custom_key_listener returns the handle: the listener
\* is built, both tasks are spawned and neither has run
Init ==
    /\ \E c \in Configs : listener = new_custom(c[1], c[2])
    /\ is_watching = FALSE
    /\ lock = "none"
    /\ pcL = "spawned"
    /\ task = NoLocals
    /\ queue = <<>>
    /\ rxAlive = TRUE
    /\ pcD = "recv"
    /\ cur = <<>>
    /\ callerPc = "idle"
    /\ quitCalls = 0
    /\ passNo = 0
    /\ lastSample = [k \in 1..Len(listener.vk_codes) |-> "none"]
    /\ sent = <<>>
    /\ calls = <<>>

\* the state when init_default_key_listener returns the handle
InitDefault ==
    /\ listener = new_default
    /\ is_watching = FALSE
    /\ lock = "none"
    /\ pcL = "spawned"
    /\ task = NoLocals
    /\ queue = <<>>
    /\ rxAlive = TRUE
    /\ pcD = "recv"
    /\ cur = <<>>
    /\ callerPc = "idle"
    /\ quitCalls = 0
    /\ passNo = 0
    /\ lastSample = [k \in 1..Len(listener.vk_codes) |-> "none"]
    /\ sent = <<>>
    /\ calls = <<>>

(***************************************************************************)
(* The channel                                                             *)
(***************************************************************************)
\* the KeyListener (and the sender it owns) lives while the caller's Arc or
\* the Arc moved into the spawned task does
HandleAlive == callerPc /= "dropped" \/ pcL /= "done"

\* the task owns a clone of the sender from the copy to the end of listen
TaskHoldsSender == pcL \in {"copied", "listen", "check", "pass", "sleep"}

SenderCount == (IF HandleAlive THEN 1 ELSE 0)
               + (IF TaskHoldsSender THEN 1 ELSE 0)

\* recv() returns None once every sender is dropped and the buffer is empty
ChannelClosed == SenderCount = 0

\* a channel that puts a sent event in front of the buffered ones
Send_Front(q, ev) == IF rxAlive THEN <<ev>> \o q ELSE q

\* a channel that buffers an event although the receiver is gone
Send_KeepsWhenClosed(q, ev) == Append(q, ev)

\* sender.send(ev): appended to the buffer; an Err (receiver dropped) is
\* discarded by `let _ =`
Send(q, ev) == IF rxAlive THEN Append(q, ev) ELSE q

\* the item receiver.recv() yields, and the buffer it leaves
RecvItem(q) == Head(q)
RecvRest(q) == Tail(q)

(***************************************************************************)
(* spawn_listener: the task that runs the watch loop                       *)
(***************************************************************************)
\* let locked = listener.lock().await;
TaskLock ==
    /\ pcL = "spawned"
    /\ lock = "none"
    /\ lock' = "task"
    /\ pcL' = "locked"
    /\ UNCHANGED <<listener, is_watching, task, queue, rxAlive, pcD, cur,
                   callerPc, quitCalls, passNo, lastSample, sent, calls>>

\* the four clones made under the lock
TaskCopy ==
    /\ pcL = "locked"
    /\ task' = [sleep_time |-> listener.polling_wait,
                vk_codes |-> listener.vk_codes,
                previous_key_states |-> listener.previous_key_states,
                i |-> 0]
    /\ pcL' = "copied"
    /\ UNCHANGED <<listener, is_watching, lock, queue, rxAlive, pcD, cur,
                   callerPc, quitCalls, passNo, lastSample, sent, calls>>

\* a task that keeps the guard: no drop(locked) before listen
TaskUnlock_KeepsGuard ==
    /\ pcL = "copied"
    /\ lock' = lock
    /\ pcL' = "listen"
    /\ UNCHANGED <<listener, is_watching, task, queue, rxAlive, pcD, cur,
                   callerPc, quitCalls, passNo, lastSample, sent, calls>>

\* drop(locked);
TaskUnlock ==
    /\ pcL = "copied"
    /\ lock' = "none"
    /\ pcL' = "listen"
    /\ UNCHANGED <<listener, is_watching, task, queue, rxAlive, pcD, cur,
                   callerPc, quitCalls, passNo, lastSample, sent, calls>>

(***************************************************************************)
(* listen: the watch loop                                                  *)
(***************************************************************************)
\* is_watching.store(true, Ordering::Relaxed);
ListenStart ==
    /\ pcL = "listen"
    /\ is_watching' = TRUE
    /\ pcL' = "check"
    /\ UNCHANGED <<listener, lock, task, queue, rxAlive, pcD, cur,
                   callerPc, quitCalls, passNo, lastSample, sent, calls>>

\* a loop that does not read the flag
LoopCondition_Always == TRUE

\* the value of the loop condition: is_watching.load(Ordering::Relaxed)
LoopCondition == is_watching

\* while is_watching.load(..) { for i in 0..vk_codes.len() ..: the test at the
\* top of a pass.  True: the pass begins at the first index (an empty watch
\* set goes straight to the sleep).  False: listen returns, the task ends.
LoopCheck ==
    /\ pcL = "check"
    /\ IF LoopCondition
       THEN /\ passNo < MaxPasses
            /\ passNo' = passNo + 1
            /\ IF Len(task.vk_codes) = 0
               THEN pcL' = "sleep" /\ task' = task
               ELSE pcL' = "pass" /\ task' = [task EXCEPT !.i = 1]
       ELSE /\ pcL' = "done"
            /\ UNCHANGED <<passNo, task>>
    /\ UNCHANGED <<listener, is_watching, lock, queue, rxAlive, pcD, cur,
                   callerPc, quitCalls, lastSample, sent, calls>>

\* the KeyEvent the match arm sends for a KeyState, <<>> for the static ones
\* a loop that sends Press events only
EventFor_NoRelease(key_state, vk_code) ==
    IF key_state = "KeyPress" THEN <<[kind |-> "Press", vk |-> vk_code]>>
    ELSE <<>>

EventFor(key_state, vk_code) ==
    CASE key_state = "KeyPress" -> <<[kind |-> "Press", vk |-> vk_code]>>
      [] key_state = "KeyRelease" -> <<[kind |-> "Release", vk |-> vk_code]>>
      [] OTHER -> <<>>

\* a for loop that reads the flag after each key and breaks out of the pass
AfterSample_BreaksOnQuit(i) ==
    IF ~is_watching THEN "check"
    ELSE IF i = Len(task.vk_codes) THEN "sleep" ELSE "pass"

\* where the task is after the iteration for index i: at the next index, or,
\* the for loop being over, in sleep(sleep_time).await
AfterSample(i) == IF i = Len(task.vk_codes) THEN "sleep" ELSE "pass"

\* an iteration over a channel of capacity 1 whose send waits for room
Sample_Bounded ==
    /\ pcL = "pass"
    /\ Len(queue) < 1
    /\ \E state \in RawStatesFor(task.vk_codes[task.i]) :
         LET i == task.i
             vk_code == task.vk_codes[i]
             r == get_key_state(state, i, task.previous_key_states)
             ev == EventFor(r.key_state, vk_code)
         IN /\ task' = [task EXCEPT
                          !.previous_key_states = r.previous_key_states,
                          !.i = i + 1]
            /\ queue' = IF ev = <<>> THEN queue ELSE Send(queue, ev[1])
            /\ sent' = IF ev = <<>> THEN sent
                       ELSE Append(sent, [ev |-> ev[1], pass |-> passNo,
                                          idx |-> i, ok |-> rxAlive])
            /\ lastSample' = [lastSample EXCEPT
                                ![i] = IF IsDown(state) THEN "down" ELSE "up"]
            /\ pcL' = AfterSample(i)
    /\ UNCHANGED <<listener, is_watching, lock, rxAlive, pcD, cur,
                   callerPc, quitCalls, passNo, calls>>

\* one iteration of the for loop: query the key, classify, update
\* previous_key_states[i], send Press or Release; after the last index the
\* task is in sleep(sleep_time)
Sample ==
    /\ pcL = "pass"
    /\ \E state \in RawStatesFor(task.vk_codes[task.i]) :
         LET i == task.i
             vk_code == task.vk_codes[i]
             r == get_key_state(state, i, task.previous_key_states)
             ev == EventFor(r.key_state, vk_code)
         IN /\ task' = [task EXCEPT
                          !.previous_key_states = r.previous_key_states,
                          !.i = i + 1]
            /\ queue' = IF ev = <<>> THEN queue ELSE Send(queue, ev[1])
            /\ sent' = IF ev = <<>> THEN sent
                       ELSE Append(sent, [ev |-> ev[1], pass |-> passNo,
                                          idx |-> i, ok |-> rxAlive])
            /\ lastSample' = [lastSample EXCEPT
                                ![i] = IF IsDown(state) THEN "down" ELSE "up"]
            /\ pcL' = AfterSample(i)
    /\ UNCHANGED <<listener, is_watching, lock, rxAlive, pcD, cur,
                   callerPc, quitCalls, passNo, calls>>

\* a loop that stores true into the flag again after each sleep
SleepDone_StoresTrue ==
    /\ pcL = "sleep"
    /\ is_watching' = TRUE
    /\ pcL' = "check"
    /\ UNCHANGED <<listener, lock, task, queue, rxAlive, pcD,
                   cur, callerPc, quitCalls, passNo, lastSample, sent, calls>>

\* sleep(sleep_time).await completes
SleepDone ==
    /\ pcL = "sleep"
    /\ pcL' = "check"
    /\ UNCHANGED <<listener, is_watching, lock, task, queue, rxAlive, pcD,
                   cur, callerPc, quitCalls, passNo, lastSample, sent, calls>>

(***************************************************************************)
(* spawn_receiver: the dispatcher                                          *)
(***************************************************************************)
\* Some(key_event) = receiver.recv().await
Recv ==
    /\ pcD = "recv"
    /\ queue /= <<>>
    /\ cur' = <<RecvItem(queue)>>
    /\ queue' = RecvRest(queue)
    /\ pcD' = "callback"
    /\ UNCHANGED <<listener, is_watching, lock, pcL, task, rxAlive,
                   callerPc, quitCalls, passNo, lastSample, sent, calls>>

\* a match with the two callbacks exchanged
CallbackFor_Swapped(ev) ==
    [cb |-> IF ev.kind = "Press" THEN "key_up_callback"
            ELSE "key_down_callback",
     vk |-> ev.vk]

\* the callback the match selects for a KeyEvent, with its argument
CallbackFor(ev) ==
    [cb |-> IF ev.kind = "Press" THEN "key_down_callback"
            ELSE "key_up_callback",
     vk |-> ev.vk]

\* the selected callback runs and returns
Callback ==
    /\ pcD = "callback"
    /\ calls' = Append(calls, CallbackFor(cur[1]))
    /\ cur' = <<>>
    /\ pcD' = "recv"
    /\ UNCHANGED <<listener, is_watching, lock, pcL, task, queue, rxAlive,
                   callerPc, quitCalls, passNo, lastSample, sent>>

\* the selected callback panics: the dispatcher task ends, its receiver is
\* dropped and with it the events still buffered
CallbackPanic ==
    /\ pcD = "callback"
    /\ cur' = <<>>
    /\ queue' = <<>>
    /\ rxAlive' = FALSE
    /\ pcD' = "done"
    /\ UNCHANGED <<listener, is_watching, lock, pcL, task, callerPc,
                   quitCalls, passNo, lastSample, sent, calls>>

\* recv() returns None: the while let ends, the receiver is dropped
DispatcherExit ==
    /\ pcD = "recv"
    /\ queue = <<>>
    /\ ChannelClosed
    /\ pcD' = "done"
    /\ rxAlive' = FALSE
    /\ UNCHANGED <<listener, is_watching, lock, pcL, task, queue, cur,
                   callerPc, quitCalls, passNo, lastSample, sent, calls>>

(***************************************************************************)
(* The caller: handle.lock().await.quit(), as in examples/example.rs       *)
(***************************************************************************)
\* clone.lock().await
CallerLock ==
    /\ callerPc = "idle"
    /\ quitCalls < MaxQuits
    /\ lock = "none"
    /\ lock' = "caller"
    /\ callerPc' = "locked"
    /\ UNCHANGED <<listener, is_watching, pcL, task, queue, rxAlive, pcD,
                   cur, quitCalls, passNo, lastSample, sent, calls>>

\* a quit that flips the flag instead of clearing it
QuitStore_Toggle(flag) == ~flag

\* a quit that waits until the watch loop has set the flag
CallerQuit_WaitsForStart ==
    /\ callerPc = "locked"
    /\ quitCalls < MaxQuits
    /\ is_watching
    /\ is_watching' = FALSE
    /\ quitCalls' = quitCalls + 1
    /\ UNCHANGED <<listener, lock, pcL, task, queue, rxAlive, pcD, cur,
                   callerPc, passNo, lastSample, sent, calls>>

\* the flag after self.is_watching.store(false, Ordering::Relaxed)
QuitStore(flag) == FALSE

\* KeyListener::quit, called through the MutexGuard
CallerQuit ==
    /\ callerPc = "locked"
    /\ quitCalls < MaxQuits
    /\ is_watching' = QuitStore(is_watching)
    /\ quitCalls' = quitCalls + 1
    /\ UNCHANGED <<listener, lock, pcL, task, queue, rxAlive, pcD, cur,
                   callerPc, passNo, lastSample, sent, calls>>

\* the MutexGuard is dropped
CallerUnlock ==
    /\ callerPc = "locked"
    /\ lock' = "none"
    /\ callerPc' = "idle"
    /\ UNCHANGED <<listener, is_watching, pcL, task, queue, rxAlive, pcD,
                   cur, quitCalls, passNo, lastSample, sent, calls>>

\* the caller drops its Arc of the handle
CallerDrop ==
    /\ callerPc = "idle"
    /\ callerPc' = "dropped"
    /\ UNCHANGED <<listener, is_watching, lock, pcL, task, queue, rxAlive,
                   pcD, cur, quitCalls, passNo, lastSample, sent, calls>>

(***************************************************************************)
(* Specifications                                                          *)
(***************************************************************************)
Next ==
    \/ TaskLock
    \/ TaskCopy
    \/ TaskUnlock
    \/ ListenStart
    \/ LoopCheck
    \/ Sample
    \/ SleepDone
    \/ Recv
    \/ Callback
    \/ DispatcherExit
    \/ CallerLock
    \/ CallerQuit
    \/ CallerUnlock
    \/ CallerDrop

Spec == Init /\ [][Next]_vars

\* the tokio scheduler runs the dispatcher task whenever the channel holds an
\* event, and the callbacks return
FairSpec == Spec /\ WF_vars(Recv) /\ WF_vars(Callback)

\* the program with user callbacks that panic when they are invoked
NextPanic ==
    \/ TaskLock
    \/ TaskCopy
    \/ TaskUnlock
    \/ ListenStart
    \/ LoopCheck
    \/ Sample
    \/ SleepDone
    \/ Recv
    \/ CallbackPanic
    \/ DispatcherExit
    \/ CallerLock
    \/ CallerQuit
    \/ CallerUnlock
    \/ CallerDrop

SpecPanic == Init /\ [][NextPanic]_vars

\* the program started by either entry point
SpecModes == (Init \/ InitDefault) /\ [][Next]_vars

(***************************************************************************)
(* Properties                                                              *)
(***************************************************************************)
\* the step is the loop's iteration for index i
SampleStep(i) == pcL = "pass" /\ task.i = i /\ task'.i = i + 1

\* the watch-set indices
Indices == 1..Len(listener.vk_codes)

\* C1: no duplicate transitions.  When the iteration for index i samples the
\* same is_down as the iteration for i of the pass before, it sends nothing:
\* the log of sends and the channel buffer are as they were.
C1_NoDuplicateTransitions ==
    [][\A i \in Indices :
         (SampleStep(i) /\ lastSample[i] /= "none"
            /\ lastSample'[i] = lastSample[i])
         => (sent' = sent /\ queue' = queue)]_vars

\* C1 witness: one key sampled down, down over two passes, one Press sent (in
\* the first pass) and nothing in the second.
C1_Witness ==
    /\ Len(listener.vk_codes) = 1
    /\ passNo = 2 /\ pcL = "sleep"
    /\ lastSample[1] = "down"
    /\ Len(sent) = 1 /\ sent[1].ev.kind = "Press" /\ sent[1].pass = 1

\* the callback invocations made with key code k, in order
CallsFor(k) == SelectSeq(calls, LAMBDA c : c.vk = k)

\* key_down, key_up, key_down, ... beginning with key_down
Alternates(cs) ==
    \A n \in 1..Len(cs) :
        cs[n].cb = IF n % 2 = 1 THEN "key_down_callback" ELSE "key_up_callback"

\* the key codes of the watch set, and those that occur in it once
WatchedCodes == {listener.vk_codes[i] : i \in Indices}
OccursOnce(k) == Cardinality({i \in Indices : listener.vk_codes[i] = k}) = 1

\* C2 as claimed: for every watch set, the callbacks invoked for a key code
\* alternate press, release, press, ... beginning with press.
C2_AlternationForAnyWatchSet ==
    \A k \in WatchedCodes : Alternates(CallsFor(k))

\* C2 as amended: the callbacks invoked for a key code that occurs once in the
\* watch set alternate press, release, press, ... beginning with press.
C2_AlternationForUniqueCodes ==
    \A k \in WatchedCodes : OccursOnce(k) => Alternates(CallsFor(k))

\* C2 witness: a key code that occurs once has had press, release, press
\* delivered.
C2_Witness ==
    \E k \in WatchedCodes : OccursOnce(k) /\ Len(CallsFor(k)) = 3

\* the flag is clear and the loop has come to the top of a pass since (it is
\* there within one pass plus one sleep of the store), or has returned
TickElapsedAfterClear == ~is_watching /\ pcL \in {"check", "done"}

C4_NoPassAfterQuit ==
    [][quitCalls > 0 => passNo' = passNo]_vars

\* the events handed to sender.send, in order
SentEvents == [n \in 1..Len(sent) |-> sent[n].ev]

\* the event a callback invocation reports to the user: a press of vk by the
\* press callback, a release of vk by the release callback
Reported(c) ==
    [kind |-> IF c.cb = "key_down_callback" THEN "Press" ELSE "Release",
     vk |-> c.vk]

\* the events reported so far, in order
ReportedEvents == [n \in 1..Len(calls) |-> Reported(calls[n])]

\* log entry a comes before log entry b: an earlier pass, or the same pass
\* and a smaller watch-set index
Before(a, b) == a.pass < b.pass \/ (a.pass = b.pass /\ a.idx < b.idx)

\* C5: order preservation.  The sends are made pass by pass and, within a
\* pass, in watch-set index order, and the callbacks are invoked in the order
\* of the sends: the n-th invocation is the one for the n-th send.
C5_OrderPreserved ==
    /\ \A m, n \in 1..Len(sent) : m < n => Before(sent[m], sent[n])
    /\ Len(calls) <= Len(sent)
    /\ \A n \in 1..Len(calls) : Reported(calls[n]) = sent[n].ev

\* C5 witness: two events of one pass, for different indices, and one of the
\* next pass have been dispatched.
C5_Witness ==
    /\ Len(calls) = 3
    /\ sent[1].pass = sent[2].pass /\ sent[1].idx < sent[2].idx
    /\ sent[2].pass < sent[3].pass

\* what is still to be dispatched: the event the dispatcher holds and the
\* buffered ones
Pending == cur \o queue

\* C6: one callback per event.  At every moment the events sent are exactly
\* the events reported by the callbacks so far followed by the events still
\* to be dispatched, in order: the press callback for a Press and the release
\* callback for a Release, with the event's key code, nothing lost and
\* nothing dispatched twice.  And a waiting dispatcher eventually receives a
\* buffered event and the callback of a received event eventually completes,
\* so that every event sent is eventually dispatched.
C6_OneCallbackPerEvent ==
    /\ [](SentEvents = ReportedEvents \o Pending)
    /\ (pcD = "recv" /\ queue /= <<>>) ~> (pcD = "callback")
    /\ (pcD = "callback") ~> (pcD = "recv")

\* C6 witness: a Press and a Release have been dispatched, each to its
\* callback, and another event is buffered.
C6_Witness ==
    /\ Len(calls) >= 2 /\ queue /= <<>>
    /\ \E n \in 1..Len(calls) :
          sent[n].ev.kind = "Press" /\ calls[n].cb = "key_down_callback"
    /\ \E n \in 1..Len(calls) :
          sent[n].ev.kind = "Release" /\ calls[n].cb = "key_up_callback"

\* C7: idempotent stop.  A quit() leaves the flag false and changes nothing
\* else of the listener, the loop, the channel or the dispatcher, so a second
\* quit() in succession changes nothing at all; and a loop that has returned
\* stays returned.
C7_QuitIdempotent ==
    [][/\ quitCalls' /= quitCalls
          => /\ is_watching' = FALSE
             /\ (~is_watching => is_watching' = is_watching)
             /\ UNCHANGED <<listener, lock, pcL, task, queue, rxAlive, pcD,
                            cur, callerPc, passNo, lastSample, sent, calls>>
       /\ pcL = "done" => pcL' = "done"]_vars

\* C7 witness: a pass has begun (the flag was true) and, before its first
\* key is sampled, quit() has been called twice.
C7_Witness ==
    quitCalls = 2 /\ ~is_watching /\ pcL = "pass" /\ task.i = 1

\* the loop has started: the flag has been set by listen
LoopStarted == pcL \in {"check", "pass", "sleep", "done"}

\* C8: a stop request takes effect at a pass boundary.  A pass that has begun
\* goes through the indices one by one and ends only after the last one,
\* whatever the flag is; and after listen has set the flag, no pass begins
\* while the flag is false.
C8_StopAtPassBoundary ==
    [][/\ pcL = "pass"
          => \/ pcL' = "pass" /\ task'.i \in {task.i, task.i + 1}
             \/ pcL' = "sleep" /\ task.i = Len(task.vk_codes)
                  /\ task'.i = task.i + 1
       /\ (LoopStarted /\ ~is_watching) => passNo' = passNo]_vars

\* C8 witness: the second key of a pass is sampled although quit() has
\* cleared the flag.
C8_Witness ==
    /\ quitCalls > 0 /\ ~is_watching
    /\ pcL = "sleep" /\ Len(task.vk_codes) = 2 /\ passNo = 1
    /\ lastSample[2] /= "none"

\* C9 as claimed: after the watch loop task has ended the channel is closed,
\* so a dispatcher that finds the buffer empty terminates.
C9_ClosedAfterLoopEnds ==
    (pcL = "done" /\ pcD = "recv" /\ queue = <<>>) => ChannelClosed

\* C10 as claimed: the caller can make its quit() in every state, also while
\* another context holds the lock.
C10_QuitEnabledAlways ==
    (callerPc = "idle" /\ quitCalls < MaxQuits) => ENABLED CallerLock

\* C10 as amended: the store of quit() never waits, but quit() is reached
\* through the lock of the handle: the caller can take the lock exactly when
\* no other context holds it, and once it has the lock its quit() and the
\* release of the lock are always possible.
C10_QuitEnabledWhenLockFree ==
    /\ (callerPc = "idle" /\ quitCalls < MaxQuits)
          => (ENABLED CallerLock <=> lock = "none")
    /\ (callerPc = "locked" /\ quitCalls < MaxQuits) => ENABLED CallerQuit
    /\ callerPc = "locked" => (lock = "caller" /\ ENABLED CallerUnlock)

\* C10 witness: the caller has made a quit() under its lock before the
\* spawned task could take the lock.
C10_Witness ==
    callerPc = "locked" /\ quitCalls = 1 /\ pcL = "spawned"

\* C11: the watch loop never waits for the dispatcher.  Whatever the number
\* of buffered events and wherever the dispatcher is (also inside a
\* callback), the loop's next step is possible: an iteration in a pass, the
\* end of the sleep, the test at the top of a pass (within the passes
\* explored).
C11_LoopNeverBlocksOnDispatcher ==
    /\ pcL = "pass" => ENABLED Sample
    /\ pcL = "sleep" => ENABLED SleepDone
    /\ (pcL = "check" /\ (is_watching => passNo < MaxPasses))
          => ENABLED LoopCheck

\* C11 witness: the loop is in a pass while two events are buffered and the
\* dispatcher is inside a callback.
C11_Witness ==
    pcL = "pass" /\ Len(queue) >= 2 /\ pcD = "callback"

\* C12: with the receiver dropped, a send is discarded without error and the
\* loop goes on.  Nothing is buffered any more; an iteration is still
\* possible in a pass, it sets previous_key_states[i] to the sample and goes
\* to the next index; and the test at the top of a pass still ends the loop
\* when the flag is clear.
C12_SendDroppedLoopContinues ==
    /\ [](~rxAlive => /\ queue = <<>>
                      /\ pcL = "pass" => ENABLED Sample
                      /\ (pcL = "check" /\ ~is_watching) => ENABLED LoopCheck)
    /\ [][~rxAlive =>
            /\ \A i \in Indices :
                 SampleStep(i) =>
                   /\ task'.previous_key_states[i] = (lastSample'[i] = "down")
                   /\ pcL' = IF i = Len(task.vk_codes) THEN "sleep" ELSE "pass"
            /\ (pcL = "check" /\ ~is_watching /\ pcL' /= pcL) => pcL' = "done"
         ]_vars

\* C12 witness: a send was made after the receiver was dropped, and the loop
\* has since ended on a cleared flag.
C12_Witness ==
    /\ ~rxAlive /\ pcL = "done" /\ queue = <<>>
    /\ \E n \in 1..Len(sent) : ~sent[n].ok

\* the kinds of event the iteration for index i sends, given what it sampled
\* and what previous_key_states[i] was: the truth table of the classification
SentKindsFor(is_down, was_down) ==
    CASE is_down /\ ~was_down -> <<"Press">>
      [] ~is_down /\ was_down -> <<"Release">>
      [] OTHER -> <<>>

\* C13: the classification matches the truth table.  get_key_state returns
\* KeyPress for (down, was up), StaticDown for (down, was down), KeyRelease
\* for (up, was down), StaticUp for (up, was up); an iteration sends a Press
\* with the key's code in the first case, a Release in the third and nothing
\* in the two static cases; the channel holds Press and Release events only.
C13_ClassificationTable ==
    /\ [](/\ Classify(TRUE, FALSE) = "KeyPress"
          /\ Classify(TRUE, TRUE) = "StaticDown"
          /\ Classify(FALSE, TRUE) = "KeyRelease"
          /\ Classify(FALSE, FALSE) = "StaticUp"
          /\ \A n \in 1..Len(queue) : queue[n].kind \in {"Press", "Release"})
    /\ [][\A i \in Indices :
            SampleStep(i) =>
              LET kinds == SentKindsFor(lastSample'[i] = "down",
                                        task.previous_key_states[i])
              IN /\ Len(sent') = Len(sent) + Len(kinds)
                 /\ queue' = queue
                       \o [n \in 1..Len(kinds) |->
                             [kind |-> kinds[n], vk |-> task.vk_codes[i]]]
                 /\ kinds /= <<>> => sent'[Len(sent')].ev.kind = kinds[1]
         ]_vars

\* C13 witness: over three passes of a two-key watch set the first key was
\* sampled down, down, up (Press, StaticDown, Release) and the second key up
\* each time (StaticUp).
C13_Witness ==
    /\ Len(listener.vk_codes) = 2 /\ passNo = 3 /\ pcL = "sleep"
    /\ lastSample = <<"up", "up">>
    /\ Len(sent) = 2
    /\ sent[1].ev.kind = "Press" /\ sent[1].idx = 1 /\ sent[1].pass = 1
    /\ sent[2].ev.kind = "Release" /\ sent[2].idx = 1 /\ sent[2].pass = 3

\* the listener was built from an empty key list and a zero polling interval
EmptyConfig == Len(listener.vk_codes) = 0 /\ listener.polling_wait = 0

\* C14 as claimed: the empty configuration is accepted, its loop runs passes
\* that send nothing, and it exits after quit(): once quit() has been called
\* no new pass begins.
C14_EmptyConfigExitsAfterQuit ==
    /\ [](EmptyConfig => (sent = <<>> /\ queue = <<>> /\ pcL /= "pass"))
    /\ [][(EmptyConfig /\ quitCalls > 0) => passNo' = passNo]_vars

\* C15: the spawned task holds the lock only for its start-up copy.  It holds
\* the lock exactly between its lock().await and its drop(locked), so not at
\* the loop test, in a pass, in the sleep or after the loop; it takes the
\* lock only as its first step; and while the loop is in a pass or sleeping
\* an idle caller can take the lock, make its quit() and release the lock.
C15_LockHeldOnlyForCopy ==
    /\ [](/\ lock = "task" <=> pcL \in {"locked", "copied"}
          /\ (pcL \in {"pass", "sleep"} /\ callerPc = "idle"
                /\ quitCalls < MaxQuits) => ENABLED CallerLock
          /\ (pcL \in {"pass", "sleep"} /\ callerPc = "locked")
                => /\ quitCalls < MaxQuits => ENABLED CallerQuit
                   /\ ENABLED CallerUnlock)
    /\ [][(lock' = "task" /\ lock /= "task") => pcL = "spawned"]_vars

\* C15 witness: the caller holds the lock and has made its quit() while the
\* loop is in a pass.
C15_Witness ==
    pcL = "pass" /\ lock = "caller" /\ quitCalls = 1 /\ ~is_watching

\* the task has cloned the configuration
Copied == pcL \notin {"spawned", "locked"}

\* C16: for both construction modes the previous-state vector has the length
\* of the key-code list, in the listener behind the handle and in the clones
\* the watch loop works on, in every reachable state; and when init returns
\* every entry is false.
C16_StatesMatchKeyList ==
    /\ Len(listener.previous_key_states) = Len(listener.vk_codes)
    /\ Copied => /\ task.vk_codes = listener.vk_codes
                 /\ Len(task.previous_key_states) = Len(task.vk_codes)
    /\ pcL = "spawned" => \A i \in Indices : ~listener.previous_key_states[i]

\* C16 witness: the default listener, whose loop has sampled the space key
\* (index 58 of its 69 keys) down and finished the pass.
C16_Witness ==
    /\ Len(listener.vk_codes) = 69 /\ listener.vk_codes[58] = 32
    /\ pcL = "sleep" /\ task.previous_key_states[58]

\* C17: lifecycle of the running flag.  The flag is false until listen
\* begins; it goes from false to true only by the store at the beginning of
\* listen; the task reaches that store once (it never comes back to a
\* position before the loop) and a loop that has returned stays returned.
C17_FlagLifecycle ==
    /\ [](~LoopStarted => ~is_watching)
    /\ [][/\ (is_watching' /\ ~is_watching)
               => (pcL = "listen" /\ pcL' = "check")
          /\ LoopStarted => LoopStarted'
          /\ pcL = "done" => (pcL' = "done" /\ ~is_watching')]_vars

\* C17 witness: the flag was set by listen, a pass ran, quit() cleared the
\* flag and the loop has returned.
C17_Witness ==
    pcL = "done" /\ passNo >= 1 /\ quitCalls >= 1 /\ ~is_watching

\* C18: sampling key i stores the sampled is_down into previous_key_states[i]
\* whatever the classification is, and leaves every other entry as it was;
\* within a pass the entries already sampled equal the values sampled, so
\* after a full pass the vector equals the vector of sampled values.
C18_SampleUpdatesOnlyItsEntry ==
    /\ [](/\ pcL = "pass" =>
               \A j \in 1..(task.i - 1) :
                  task.previous_key_states[j] = (lastSample[j] = "down")
          /\ pcL = "sleep" =>
               \A j \in Indices :
                  task.previous_key_states[j] = (lastSample[j] = "down"))
    /\ [][\A i \in Indices :
            SampleStep(i) =>
              /\ task'.previous_key_states[i] = (lastSample'[i] = "down")
              /\ \A j \in Indices \ {i} :
                    task'.previous_key_states[j] = task.previous_key_states[j]
              /\ Len(task'.previous_key_states) = Len(task.previous_key_states)
         ]_vars

\* C18 witness: the second pass over two keys has ended; key 1 was down in
\* both passes (StaticDown in the second) and key 2 up in both (StaticUp),
\* no event was sent in the second pass, and the vector is <<TRUE, FALSE>>.
C18_Witness ==
    /\ Len(listener.vk_codes) = 2 /\ listener.vk_codes[1] /= listener.vk_codes[2]
    /\ passNo = 2 /\ pcL = "sleep"
    /\ lastSample = <<"down", "up">>
    /\ Len(sent) = 1 /\ sent[1].idx = 1 /\ sent[1].pass = 1
    /\ task.previous_key_states = <<TRUE, FALSE>>

\* every value of the i16 that GetAsyncKeyState returns
I16 == -32768..32767

\* the i16 with the sign bit of x and the lower 15 bits cleared
SignOnly(x) == IF x < 0 THEN -32768 ELSE 0

\* is_down over the whole i16 range: true exactly for the negative values,
\* and the same for x and for x with its lower 15 bits cleared
IsDownIsSignBit ==
    \A x \in I16 : /\ IsDown(x) <=> x < 0
                   /\ IsDown(x) = IsDown(SignOnly(x))

\* C19: is_down is the most significant bit alone.  For every raw value in
\* -32768..32767 is_down is true iff the value is negative, two values that
\* differ only in the lower 15 bits give the same is_down, and wherever the
\* loop is about to sample a key, each raw value the query can return gives
\* the same classification and the same updated vector as the value with
\* only its sign bit.
C19_IsDownIsMsbAlone ==
    /\ IsDownIsSignBit
    /\ pcL = "pass" =>
         \A x \in RawStates :
            get_key_state(x, task.i, task.previous_key_states)
              = get_key_state(SignOnly(x), task.i, task.previous_key_states)

\* C19 witness: in the first pass key 1 was sampled down and a Press was
\* sent for it; the loop is about to sample key 2.
C19_Witness ==
    /\ pcL = "pass" /\ task.i = 2 /\ passNo = 1
    /\ lastSample[1] = "down" /\ task.previous_key_states[1]
    /\ Len(sent) = 1 /\ sent[1].ev.kind = "Press"

\* the events the loop passed to send for index i, in order
SendsFor(i) == SelectSeq(sent, LAMBDA e : e.idx = i)

\* the events that entered the channel for index i (the consumer was open)
EnqueuedFor(i) == SelectSeq(sent, LAMBDA e : e.idx = i /\ e.ok)

\* the number of events of a kind in a log
CountKind(log, kind) ==
    Cardinality({n \in 1..Len(log) : log[n].ev.kind = kind})

\* the loop is between two passes, or has returned
PassBoundary == pcL \in {"check", "sleep", "done"}

\* previous_key_states agrees with the per-index logs Log(i) at the pass
\* boundaries: entry i is true iff the last event of Log(i) is a Press (false
\* when Log(i) is empty), Press minus Release is 0 or 1, and a key sampled
\* down in the first pass has a Press of the first pass in its log
HistoryAgrees(Log(_)) ==
    PassBoundary =>
      \A i \in Indices :
        LET log == Log(i)
        IN /\ task.previous_key_states[i]
                <=> (log /= <<>> /\ log[Len(log)].ev.kind = "Press")
           /\ CountKind(log, "Press") - CountKind(log, "Release") \in {0, 1}
           /\ (passNo = 1 /\ pcL = "sleep" /\ lastSample[i] = "down")
                => \E n \in 1..Len(log) :
                      log[n].ev.kind = "Press" /\ log[n].pass = 1

\* C20 as claimed: at every pass boundary previous_key_states[i] is true iff
\* the most recent event enqueued for index i is a Press, the enqueued
\* Presses minus Releases are 0 or 1, and a key held down at the start has
\* a Press enqueued in the first pass.
C20_PrevMatchesEnqueued == HistoryAgrees(EnqueuedFor)

\* C20, amended: the same with the events the loop passed to send for index
\* i, whether they entered the channel or were dropped because the consumer
\* is closed.
C20_PrevMatchesSent == HistoryAgrees(SendsFor)

\* C20 witness: the receiver has ended, key 1 was pressed afterwards and its
\* Press was dropped; the pass has ended with previous_key_states[1] true.
C20_Witness ==
    /\ ~rxAlive /\ pcL = "sleep" /\ task.previous_key_states[1]
    /\ LET log == SendsFor(1)
       IN log /= <<>> /\ log[Len(log)].ev.kind = "Press" /\ ~log[Len(log)].ok

====
